---- MODULE Spec2Model ----
(***************************************************************************)
(* Model of garbotron/donkeytownsfolk: the price scraper and its scheduler *)
(* (prices.go), the Mongo-backed price catalog and scraper stats           *)
(* (database.go) and the deck pricing / legality functions (database.go).  *)
(*                                                                         *)
(* Strings are sequences of one-character strings.  Money is an integer    *)
(* number of currency units.  Time is an integer number of days, so that   *)
(* waitBetweenScrapes (24h) is 1; the ticker period (30s) is far below one *)
(* unit, so a tick may arrive at any clock value.                          *)
(***************************************************************************)
EXTENDS Integers, Sequences, FiniteSets, TLC

VARIABLES
    site,         \* the listing rows the scraped site shows
    clock,        \* wall-clock time (time.Now())
    tickChan,     \* the channel of time.Tick: <<>> or <<t>> (buffer of one)
    pc,           \* position of the ScrapeForever goroutine
    statsRead,    \* err of the GetScraperStats that started the current run, else "none"
    setLinks,     \* scrapePrices: number of set links not yet scraped
    lowestPrice,  \* scrapePrices: map ID -> *PriceDbEntry
    pendingStats, \* the &ScraperStats{time.Now(), err} handed to SetScraperStats
    prices,       \* Mongo collection "prices": a set of PriceDbEntry documents
    scraperStats, \* Mongo collection "scraperstats": a set of ScraperStats documents
    lookup,       \* result of the last NameAndPrice call of a request handler
    running,      \* history: number of scrapePricesPeriodic calls in flight
    observed,     \* history: every entry scrapePage returned during the current run
    pricesAtStart,\* history: the catalog when the current run started
    outcome,      \* history: "running" during a run, then how scrapePrices ended
    lastEnd,      \* history: the time the last attempt returned to the loop, or -1
    lastGood,     \* history: {} or {the reconciled set of the last successful run}
    deck,         \* a Deck value handed to the legality functions
    best,         \* result of Deck.CurrentPriceSnapshot: -1 before the call,
                  \* 0 for nil, else the index of the snapshot in deck.Snapshots
    legal,        \* result of Deck.IsStagingAreaLegal: "unset", "legal", "illegal"
    isLegal,      \* result of Deck.IsLegal: "unset", "legal", "illegal", "panic"
    call,         \* a call of a pure function: [fn |-> its name, ...arguments]
    ret,          \* [done |-> FALSE] or [done |-> TRUE, val |-> what call returned]
    cells,        \* the *CardEntry objects of the deck being edited: address -> CardEntry
    ed,           \* the deck being edited; its card slices hold addresses of cells
    op,           \* history: the last operation done on ed
    users,        \* Mongo collection "users": the names of the stored documents
    reqs,         \* the add-user requests being served: where each one stands
    sessionKey,   \* Mongo collection "users": user name -> User.SessionKey
    cookies,      \* the session cookie of each browser: [user, key]
    keysMade,     \* the number of keys securecookie.GenerateRandomKey has made
    userDecks,    \* user.Decks of one user: the names of the decks, in order
    deckReq,      \* history: the last deck request and the error it returned
    issued        \* history: [last |-> user -> the key last issued for it,
                  \*           retired |-> the keys a later login or a logout replaced]

schedVars == <<site, clock, tickChan, pc, statsRead, setLinks, lowestPrice,
               pendingStats, prices, scraperStats, lookup, running, observed,
               pricesAtStart, outcome, lastEnd, lastGood>>
deckVars == <<deck, best, legal, isLegal>>
pureVars == <<call, ret>>
editVars == <<cells, ed, op>>
userVars == <<users, reqs>>
sessVars == <<sessionKey, cookies, keysMade, issued>>
namesVars == <<userDecks, deckReq>>
notSched == <<deckVars, pureVars, editVars, userVars, sessVars, namesVars>>
notDeck == <<schedVars, pureVars, editVars, userVars, sessVars, namesVars>>
notPure == <<schedVars, deckVars, editVars, userVars, sessVars, namesVars>>
notEdit == <<schedVars, deckVars, pureVars, userVars, sessVars, namesVars>>
notUser == <<schedVars, deckVars, pureVars, editVars, sessVars, namesVars>>
notSess == <<schedVars, deckVars, pureVars, editVars, userVars, namesVars>>
notNames == <<schedVars, deckVars, pureVars, editVars, userVars, sessVars>>
vars == <<schedVars, deckVars, pureVars, editVars, userVars, sessVars, namesVars>>

(***************************************************************************)
(* Bounds of the model.                                                    *)
(***************************************************************************)
MaxTime == 2
MaxLinks == 2
MaxRows == 2

\* prices.go:15  var waitBetweenScrapes = 24 * time.Hour  (in days)
waitBetweenScrapes == 1

(***************************************************************************)
(* Characters (package unicode).                                           *)
(***************************************************************************)
LowerSeq ==
    <<"a", "b", "c", "d", "e", "f", "g", "h", "i", "j", "k", "l", "m",
      "n", "o", "p", "q", "r", "s", "t", "u", "v", "w", "x", "y", "z">>
UpperSeq ==
    <<"A", "B", "C", "D", "E", "F", "G", "H", "I", "J", "K", "L", "M",
      "N", "O", "P", "Q", "R", "S", "T", "U", "V", "W", "X", "Y", "Z">>
LowerChars == { LowerSeq[i] : i \in DOMAIN LowerSeq }
UpperChars == { UpperSeq[i] : i \in DOMAIN UpperSeq }
DigitChars == {"0", "1", "2", "3", "4", "5", "6", "7", "8", "9"}

IsLetter(c) == c \in LowerChars \cup UpperChars
IsNumber(c) == c \in DigitChars
ToLower(c) ==
    IF c \in UpperChars
    THEN LowerSeq[CHOOSE i \in DOMAIN UpperSeq : UpperSeq[i] = c]
    ELSE c

\* prices.go:149  nameToId
RECURSIVE nameToId(_)
nameToId(name) ==
    IF name = <<>> THEN <<>>
    ELSE LET c == Head(name)
         IN (IF IsLetter(c) \/ IsNumber(c) THEN <<ToLower(c)>> ELSE <<>>)
                \o nameToId(Tail(name))

(***************************************************************************)
(* The price text of a listing row (prices.go:131-138).                    *)
(***************************************************************************)
RECURSIVE TrimLeft(_, _)
TrimLeft(s, cut) ==
    IF s # <<>> /\ Head(s) \in cut THEN TrimLeft(Tail(s), cut) ELSE s

RECURSIVE TrimRight(_, _)
TrimRight(s, cut) ==
    IF s # <<>> /\ s[Len(s)] \in cut
    THEN TrimRight(SubSeq(s, 1, Len(s) - 1), cut) ELSE s

\* strings.TrimSpace and strings.Trim(price, "$")
Trim(s, cut) == TrimRight(TrimLeft(s, cut), cut)

\* strings.Replace(price, ",", "", -1)
RECURSIVE RemoveCommas(_)
RemoveCommas(s) ==
    IF s = <<>> THEN <<>>
    ELSE (IF Head(s) = "," THEN <<>> ELSE <<Head(s)>>) \o RemoveCommas(Tail(s))

DigitVal(c) ==
    CASE c = "0" -> 0 [] c = "1" -> 1 [] c = "2" -> 2 [] c = "3" -> 3
      [] c = "4" -> 4 [] c = "5" -> 5 [] c = "6" -> 6 [] c = "7" -> 7
      [] c = "8" -> 8 [] c = "9" -> 9

RECURSIVE DecimalVal(_)
DecimalVal(s) ==
    IF s = <<>> THEN 0
    ELSE 10 * DecimalVal(SubSeq(s, 1, Len(s) - 1)) + DigitVal(s[Len(s)])

\* strconv.ParseFloat on the texts of the model: a non-empty run of digits
\* parses to its value, anything else is an error.
ParseFloat(s) ==
    IF s # <<>> /\ \A i \in 1..Len(s) : IsNumber(s[i])
    THEN [err |-> FALSE, val |-> DecimalVal(s)]
    ELSE [err |-> TRUE, val |-> 0]

\* prices.go:131-135
ParsePrice(text) == ParseFloat(RemoveCommas(Trim(Trim(text, {" "}), {"$"})))

(***************************************************************************)
(* Inputs: what the scraped site can show.                                 *)
(***************************************************************************)
\* prices.go:119-131  a sale row: the cn= parameter and the cell text
Row(cardName, price) == [cardName |-> cardName, price |-> price]

\* A site with one card, whose price text is sometimes malformed.
SitePoor == { Row(<<"C">>, <<"$", "3">>), Row(<<"C">>, <<"$">>) }

\* A site listing one card under two spellings and two prices, and another.
SiteRich ==
    { Row(<<"A", "b">>, <<" ", "$", "5">>), Row(<<"a", "-", "b">>, <<"$", "3">>),
      Row(<<"a", "-", "b">>, <<"$", "5">>), Row(<<"C">>, <<"$", "3", ",">>),
      Row(<<"C">>, <<"$">>) }

\* prices.go:95  the rows of one listing page
PageRows(rows) == UNION { [1..n -> rows] : n \in 0..MaxRows }

\* prices.go:183  the IDs request handlers look up
LookupIDs(rows) == { nameToId(r.cardName) : r \in rows }

\* prices.go:140-142  &PriceDbEntry{nameToId(cardName), cardName, Money(priceFloat)}
PriceDbEntry(cardName, priceFloat) ==
    [ID |-> nameToId(cardName), Name |-> cardName, Price |-> priceFloat]

(***************************************************************************)
(* The Mongo collections (gopkg.in/mgo.v2 as used in database.go).         *)
(***************************************************************************)
\* database.go:147, 268  c.RemoveAll(nil)
RemoveAll(coll) == {}

\* database.go:150, 271  c.Insert(docs...)
Insert(coll, docs) == coll \cup docs

\* database.go:251-259  NameAndPrice: the results Find({"id": id}).One can give
NameAndPrice(coll, id) ==
    LET found == { e \in coll : e.ID = id }
    IN IF found = {}
       THEN { [Name |-> <<>>, Price |-> 0, err |-> TRUE] }
       ELSE { [Name |-> e.Name, Price |-> e.Price, err |-> FALSE] : e \in found }

\* database.go:135-143  GetScraperStats: readOk = FALSE is a failed read
GetScraperStats(coll, readOk) ==
    IF ~readOk THEN { [err |-> "unreadable", LastPriceUpdate |-> 0] }
    ELSE IF coll = {} THEN { [err |-> "absent", LastPriceUpdate |-> 0] }
    ELSE { [err |-> "ok", LastPriceUpdate |-> s.LastPriceUpdate] : s \in coll }

(***************************************************************************)
(* scrapePrices: reconciliation (prices.go:59-79).                         *)
(***************************************************************************)
EmptyMap == [id \in {} |-> id]

\* prices.go:68  lowestPrice[e.ID] = e
Put(lp, e) == [id \in DOMAIN lp \cup {e.ID} |-> IF id = e.ID THEN e ELSE lp[id]]

\* A mutant of KeepLowest: the last observation of an ID wins.
KeepLast(lp, e) == Put(lp, e)

\* prices.go:66-69
KeepLowest(lp, e) ==
    IF e.ID \notin DOMAIN lp \/ e.Price < lp[e.ID].Price THEN Put(lp, e) ELSE lp

\* prices.go:65-70  for _, e := range entries
RECURSIVE Reconcile(_, _)
Reconcile(lp, entries) ==
    IF entries = <<>> THEN lp
    ELSE Reconcile(KeepLowest(lp, Head(entries)), Tail(entries))

\* prices.go:74-79  allEntries
AllEntries(lp) == { lp[id] : id \in DOMAIN lp }

\* prices.go:95-143  the entries scrapePage builds from the rows of one page
PageEntries(rows) ==
    [i \in 1..Len(rows) |->
        PriceDbEntry(rows[i].cardName, ParsePrice(rows[i].price).val)]

\* prices.go:135-138  some row's price text does not parse
PageMalformed(rows) == \E i \in 1..Len(rows) : ParsePrice(rows[i].price).err

(***************************************************************************)
(* The scheduler goroutine (prices.go:18-38) and the clock.                *)
(***************************************************************************)
\* time passes
Advance ==
    /\ clock < MaxTime
    /\ clock' = clock + 1
    /\ UNCHANGED <<site, tickChan, pc, statsRead, setLinks, lowestPrice,
                   pendingStats, prices, scraperStats, lookup, running,
                   observed, pricesAtStart, outcome, lastEnd, lastGood>>

\* prices.go:19  time.Tick: the ticker sends the current time unless the
\* channel's one-slot buffer is full, in which case the tick is dropped
Tick ==
    /\ pc # "crashed"
    /\ tickChan = <<>>
    /\ tickChan' = <<clock>>
    /\ UNCHANGED <<site, clock, pc, statsRead, setLinks, lowestPrice,
                   pendingStats, prices, scraperStats, lookup, running,
                   observed, pricesAtStart, outcome, lastEnd, lastGood>>

\* A mutant of StaleUpdate: a record exactly one window old counts as stale.
StaleUpdateNotAfter(last, t) == last + waitBetweenScrapes <= t

\* prices.go:22  stats.LastPriceUpdate.Add(waitBetweenScrapes).Before(now)
StaleUpdate(last, t) == last + waitBetweenScrapes < t

\* A mutant of AtRange: the loop takes the next tick while a run is going
\* (as if the body were `go db.scrapePricesPeriodic()`).
AtRangeOrRunning == pc # "crashed"

\* prices.go:20  for now := range c: the goroutine is blocked on the channel
AtRange == pc = "idle"

\* prices.go:23, 29, 40  the call db.scrapePricesPeriodic() -> db.scrapePrices()
StartRun ==
    /\ pc' = "index"
    /\ running' = running + 1
    /\ observed' = {}
    /\ pricesAtStart' = prices
    /\ outcome' = "running"

\* prices.go:20-25  one iteration of the loop of ScrapeForever
ReceiveTick ==
    /\ AtRange
    /\ tickChan # <<>>
    /\ tickChan' = <<>>
    /\ \E readOk \in BOOLEAN : \E r \in GetScraperStats(scraperStats, readOk) :
          IF r.err # "ok" \/ StaleUpdate(r.LastPriceUpdate, tickChan[1])
          THEN StartRun /\ statsRead' = r.err
          ELSE UNCHANGED <<pc, statsRead, running, observed, pricesAtStart,
                           outcome>>
    /\ UNCHANGED <<site, clock, setLinks, lowestPrice, pendingStats, prices,
                   scraperStats, lookup, lastEnd, lastGood>>

\* prices.go:29-37  scrapePrices has returned err ("nil" for none): the
\* stats record is built with time.Now() and handed to SetScraperStats
ReturnFromScrape(err) ==
    /\ pendingStats' = [LastPriceUpdate |-> clock, LastPriceUpdateError |-> err]
    /\ outcome' = err
    /\ pc' = "stats_remove"
    /\ UNCHANGED <<setLinks, lowestPrice, observed>>

\* A mutant of AbortRun: what was reconciled so far is published on failure.
AbortRunFlush(err) ==
    /\ ReturnFromScrape(err)
    /\ prices' = AllEntries(lowestPrice)

\* prices.go:43, 63  return err
AbortRun(err) ==
    /\ ReturnFromScrape(err)
    /\ prices' = prices

\* prices.go:137  panic(err): nothing recovers it, the process dies
Panic ==
    /\ pc' = "crashed"
    /\ outcome' = "parse"
    /\ UNCHANGED <<setLinks, lowestPrice, pendingStats, prices, observed>>

\* prices.go:60  the next step of scrapePrices once n links are left
AfterLinks(n) == IF n = 0 THEN "update_remove" ELSE "pages"

\* prices.go:41-59  fetch the index page and collect the set links
FetchIndex ==
    /\ pc = "index"
    /\ \/ /\ \E n \in 0..MaxLinks :
                /\ setLinks' = n
                /\ pc' = AfterLinks(n)
          /\ lowestPrice' = EmptyMap
          /\ UNCHANGED <<pendingStats, prices, observed, outcome>>
       \/ AbortRun("fetch")
    /\ UNCHANGED <<site, clock, tickChan, statsRead, scraperStats, lookup,
                   running, pricesAtStart, lastEnd, lastGood>>

\* prices.go:60-72 with scrapePage (84-146): one listing page
ScrapePage ==
    /\ pc = "pages"
    /\ \/ AbortRun("fetch")
       \/ \E rows \in PageRows(site) :
             IF PageMalformed(rows)
             THEN Panic
             ELSE /\ lowestPrice' = Reconcile(lowestPrice, PageEntries(rows))
                  /\ observed' = observed \cup
                        { PageEntries(rows)[i] : i \in 1..Len(rows) }
                  /\ setLinks' = setLinks - 1
                  /\ pc' = AfterLinks(setLinks - 1)
                  /\ UNCHANGED <<pendingStats, prices, outcome>>
    /\ UNCHANGED <<site, clock, tickChan, statsRead, scraperStats, lookup,
                   running, pricesAtStart, lastEnd, lastGood>>

\* database.go:268-270  UpdateAllPrices: c.RemoveAll(nil)
UpdateRemoveAll ==
    /\ pc = "update_remove"
    /\ \/ /\ prices' = RemoveAll(prices)
          /\ pc' = "update_insert"
          /\ UNCHANGED <<setLinks, lowestPrice, pendingStats, observed, outcome>>
       \/ /\ ReturnFromScrape("store")
          /\ prices' = prices
    /\ UNCHANGED <<site, clock, tickChan, statsRead, scraperStats, lookup,
                   running, pricesAtStart, lastEnd, lastGood>>

\* database.go:271  UpdateAllPrices: return c.Insert(ins...)
UpdateInsert ==
    /\ pc = "update_insert"
    /\ \/ /\ prices' = Insert(prices, AllEntries(lowestPrice))
          /\ lastGood' = { AllEntries(lowestPrice) }
          /\ ReturnFromScrape("nil")
       \/ /\ ReturnFromScrape("store")
          /\ UNCHANGED <<prices, lastGood>>
    /\ UNCHANGED <<site, clock, tickChan, statsRead, scraperStats, lookup,
                   running, pricesAtStart, lastEnd>>

NoStats == [LastPriceUpdate |-> 0, LastPriceUpdateError |-> "nil"]

\* prices.go:32, 36  SetScraperStats has returned (its error is dropped) and
\* scrapePricesPeriodic returns to the loop; the locals of the call are gone
BackToLoop ==
    /\ pc' = "idle"
    /\ running' = running - 1
    /\ statsRead' = "none"
    /\ pendingStats' = NoStats
    /\ outcome' = "none"
    /\ pricesAtStart' = {}
    /\ setLinks' = 0
    /\ lowestPrice' = EmptyMap
    /\ observed' = {}
    /\ lastEnd' = clock

\* database.go:147-149  SetScraperStats: c.RemoveAll(nil)
StatsRemoveAll ==
    /\ pc = "stats_remove"
    /\ \/ /\ scraperStats' = RemoveAll(scraperStats)
          /\ pc' = "stats_insert"
          /\ UNCHANGED <<running, statsRead, pendingStats, outcome,
                         pricesAtStart, setLinks, lowestPrice, observed,
                         lastEnd>>
       \/ /\ BackToLoop
          /\ UNCHANGED scraperStats
    /\ UNCHANGED <<site, clock, tickChan, prices, lookup, lastGood>>

\* database.go:150  SetScraperStats: return c.Insert(s)
StatsInsert ==
    /\ pc = "stats_insert"
    /\ \/ scraperStats' = Insert(scraperStats, {pendingStats})
       \/ UNCHANGED scraperStats
    /\ BackToLoop
    /\ UNCHANGED <<site, clock, tickChan, prices, lookup, lastGood>>

\* prices.go:189  a request handler resolves a card: db.NameAndPrice(id)
Lookup ==
    /\ pc # "crashed"
    /\ \E id \in LookupIDs(site) : \E r \in NameAndPrice(prices, id) :
          lookup' = [id |-> id, res |-> r]
    /\ UNCHANGED <<site, clock, tickChan, pc, statsRead, setLinks, lowestPrice,
                   pendingStats, prices, scraperStats, running, observed,
                   pricesAtStart, outcome, lastEnd, lastGood>>

(***************************************************************************)
(* Decks, snapshots and legality (database.go).                            *)
(***************************************************************************)
MaxSnapshots == 3
MaxCards == 1

\* database.go:47-52  CardEntry
CardEntry(name, count, pricePer, notFound) ==
    [Name |-> name, Count |-> count, PricePer |-> pricePer, NotFound |-> notFound]

\* database.go:54-59  CommanderEntry
CommanderEntry(name, price, isPresent, notFound) ==
    [Name |-> name, Price |-> price, IsPresent |-> isPresent, NotFound |-> notFound]

\* database.go:39-45  Snapshot (the Date plays no part in pricing or legality)
Snapshot(decklist, sideboard, commander, grandfather) ==
    [Decklist |-> decklist, Sideboard |-> sideboard, Commander |-> commander,
     IsGrandfatherLegal |-> grandfather]

\* database.go:31-37  Deck
Deck(priceLimit, stagingArea, snapshots) ==
    [PriceLimit |-> priceLimit, StagingArea |-> stagingArea, Snapshots |-> snapshots]

\* renderer.go:535  the zero Snapshot{} of a new deck
ZeroSnapshot == Snapshot(<<>>, <<>>, CommanderEntry(<<>>, 0, FALSE, FALSE), FALSE)

\* database.go:334-336  CardEntry.TotalPrice
CardTotalPrice(c) == c.PricePer * c.Count

\* database.go:340-345  the sum over a card slice
RECURSIVE SumCards(_)
SumCards(cards) ==
    IF cards = <<>> THEN 0 ELSE CardTotalPrice(Head(cards)) + SumCards(Tail(cards))

\* database.go:338-350  Snapshot.TotalPrice
TotalPrice(s) ==
    SumCards(s.Decklist) + SumCards(s.Sideboard)
        + (IF s.Commander.IsPresent THEN s.Commander.Price ELSE 0)

DigitChar(d) ==
    CASE d = 0 -> "0" [] d = 1 -> "1" [] d = 2 -> "2" [] d = 3 -> "3"
      [] d = 4 -> "4" [] d = 5 -> "5" [] d = 6 -> "6" [] d = 7 -> "7"
      [] d = 8 -> "8" [] d = 9 -> "9"

\* fmt's %d of a count >= 0
RECURSIVE Itoa(_)
Itoa(n) == IF n < 10 THEN <<DigitChar(n)>> ELSE Itoa(n \div 10) \o <<DigitChar(n % 10)>>

\* database.go:392-406  DecklistDump / SideboardDump: "%d %s\n" per card
RECURSIVE Dump(_)
Dump(cards) ==
    IF cards = <<>> THEN <<>>
    ELSE Itoa(Head(cards).Count) \o <<" ">> \o Head(cards).Name \o <<"\n">>
            \o Dump(Tail(cards))

\* database.go:412-417  Snapshot.HasIdenticalCards
HasIdenticalCards(s, other) ==
    /\ Dump(s.Decklist) = Dump(other.Decklist)
    /\ Dump(s.Sideboard) = Dump(other.Sideboard)
    /\ s.Commander.IsPresent = other.Commander.IsPresent
    /\ s.Commander.Name = other.Commander.Name

\* A mutant of ScanBack: a differing snapshot is skipped, the scan goes on.
RECURSIVE ScanBackSkipping(_, _, _)
ScanBackSkipping(snaps, i, bestSnap) ==
    IF i < 1 THEN bestSnap
    ELSE IF ~HasIdenticalCards(snaps[i], snaps[Len(snaps)])
    THEN ScanBackSkipping(snaps, i - 1, bestSnap)
    ELSE ScanBackSkipping(snaps, i - 1,
            IF TotalPrice(snaps[i]) < TotalPrice(snaps[bestSnap])
            THEN i ELSE bestSnap)

\* A mutant of ScanBack: an older snapshot of equal price replaces the best.
RECURSIVE ScanBackOnTie(_, _, _)
ScanBackOnTie(snaps, i, bestSnap) ==
    IF i < 1 THEN bestSnap
    ELSE IF ~HasIdenticalCards(snaps[i], snaps[Len(snaps)]) THEN bestSnap
    ELSE ScanBackOnTie(snaps, i - 1,
            IF TotalPrice(snaps[i]) <= TotalPrice(snaps[bestSnap])
            THEN i ELSE bestSnap)

\* database.go:208-215  the backward loop of CurrentPriceSnapshot from index i
\* (1-based), bestSnap being the index of the best snapshot so far
RECURSIVE ScanBack(_, _, _)
ScanBack(snaps, i, bestSnap) ==
    IF i < 1 THEN bestSnap
    ELSE IF ~HasIdenticalCards(snaps[i], snaps[Len(snaps)]) THEN bestSnap
    ELSE ScanBack(snaps, i - 1,
            IF TotalPrice(snaps[i]) < TotalPrice(snaps[bestSnap])
            THEN i ELSE bestSnap)

\* database.go:199-218  Deck.CurrentPriceSnapshot: 0 for nil, else the index
CurrentPriceSnapshot(d) ==
    IF Len(d.Snapshots) = 0 THEN 0
    ELSE ScanBack(d.Snapshots, Len(d.Snapshots) - 1, Len(d.Snapshots))

\* A mutant of IsSaved: the total prices are not compared.
IsSavedCardsOnly(d) ==
    IF Len(d.Snapshots) = 0 THEN FALSE
    ELSE HasIdenticalCards(d.StagingArea, d.Snapshots[Len(d.Snapshots)])

\* database.go:181-187  Deck.IsSaved
IsSaved(d) ==
    IF Len(d.Snapshots) = 0 THEN FALSE
    ELSE LET snap == d.Snapshots[Len(d.Snapshots)]
         IN /\ HasIdenticalCards(d.StagingArea, snap)
            /\ TotalPrice(d.StagingArea) = TotalPrice(snap)

\* database.go:229-238  some card of the slice is marked NotFound
AnyNotFound(cards) == \E i \in 1..Len(cards) : cards[i].NotFound

\* A mutant of IsSnapshotLegal: the grandfather flag is looked at first.
IsSnapshotLegalGrandfatherFirst(d, s) ==
    \/ s.IsGrandfatherLegal
    \/ /\ ~(s.Commander.IsPresent /\ s.Commander.NotFound)
       /\ ~AnyNotFound(s.Decklist)
       /\ ~AnyNotFound(s.Sideboard)
       /\ TotalPrice(s) <= d.PriceLimit

\* A mutant of IsSnapshotLegal: a total equal to the limit is over it.
IsSnapshotLegalBelow(d, s) ==
    IF s.Commander.IsPresent /\ s.Commander.NotFound THEN FALSE
    ELSE IF AnyNotFound(s.Decklist) THEN FALSE
    ELSE IF AnyNotFound(s.Sideboard) THEN FALSE
    ELSE s.IsGrandfatherLegal \/ TotalPrice(s) < d.PriceLimit

\* database.go:225-241  Deck.IsSnapshotLegal for a non-nil snapshot
IsSnapshotLegal(d, s) ==
    IF s.Commander.IsPresent /\ s.Commander.NotFound THEN FALSE
    ELSE IF AnyNotFound(s.Decklist) THEN FALSE
    ELSE IF AnyNotFound(s.Sideboard) THEN FALSE
    ELSE s.IsGrandfatherLegal \/ TotalPrice(s) <= d.PriceLimit

\* database.go:247-249  Deck.IsStagingAreaLegal
IsStagingAreaLegal(d) == IsSnapshotLegal(d, d.StagingArea)

(***************************************************************************)
(* Inputs: the decks handed to the pricing functions.  A card that was not *)
(* found carries price 0 (prices.go:191).                                  *)
(***************************************************************************)
SeqsUpTo(S, n) == UNION { [1..k -> S] : k \in 0..n }

NoCommander == CommanderEntry(<<>>, 0, FALSE, FALSE)

\* Snapshots of two card lists, with and without a commander, at two prices.
HistorySnapshots ==
    { Snapshot(<<CardEntry(<<"C">>, n, p, FALSE)>>, <<>>, cmd, FALSE) :
        n \in {1, 2}, p \in {1, 2},
        cmd \in { NoCommander, CommanderEntry(<<"A", "b">>, 1, TRUE, FALSE) } }

MainCards ==
    { CardEntry(<<"C">>, 1, 3, FALSE), CardEntry(<<"C">>, 2, 3, FALSE),
      CardEntry(<<"A", "b">>, 1, 1, FALSE), CardEntry(<<"x">>, 1, 0, TRUE) }

SideCards == { CardEntry(<<"A", "b">>, 2, 1, FALSE), CardEntry(<<"x">>, 1, 0, TRUE) }

Commanders ==
    { NoCommander, CommanderEntry(<<"x">>, 0, FALSE, TRUE),
      CommanderEntry(<<"C">>, 3, TRUE, FALSE), CommanderEntry(<<"x">>, 0, TRUE, TRUE) }

StagingSnapshots ==
    { Snapshot(dl, sb, cmd, gf) :
        dl \in SeqsUpTo(MainCards, MaxCards), sb \in SeqsUpTo(SideCards, MaxCards),
        cmd \in Commanders, gf \in BOOLEAN }

PriceLimits == {3, 5}

DeckInputs ==
    { Deck(3, ZeroSnapshot, h) : h \in SeqsUpTo(HistorySnapshots, MaxSnapshots) }
        \cup { Deck(l, s, <<>>) : l \in PriceLimits, s \in StagingSnapshots }

\* database.go:199  a caller asks for deck.CurrentPriceSnapshot()
CallCurrentPriceSnapshot ==
    /\ best = -1
    /\ best' = CurrentPriceSnapshot(deck)
    /\ UNCHANGED <<deck, legal, isLegal>>

\* database.go:247  a caller asks for deck.IsStagingAreaLegal()
CallIsStagingAreaLegal ==
    /\ legal = "unset"
    /\ legal' = IF IsStagingAreaLegal(deck) THEN "legal" ELSE "illegal"
    /\ UNCHANGED <<deck, best, isLegal>>

\* database.go:225-241  Deck.IsSnapshotLegal called with the pointer that
\* CurrentPriceSnapshot returned (i = 0 is nil): line 226 reads
\* s.Commander through the pointer before line 240 tests s != nil, and Go
\* panics on the nil dereference
IsSnapshotLegalPtr(d, i) ==
    IF i = 0 THEN "panic"
    ELSE IF IsSnapshotLegal(d, d.Snapshots[i]) THEN "legal" ELSE "illegal"

\* database.go:243-245  Deck.IsLegal
IsLegal(d) == IsSnapshotLegalPtr(d, CurrentPriceSnapshot(d))

\* database.go:243  a caller asks for deck.IsLegal()
CallIsLegal ==
    /\ isLegal = "unset"
    /\ isLegal' = IsLegal(deck)
    /\ UNCHANGED <<deck, best, legal>>

(***************************************************************************)
(* The decklist parser (database.go:87-121).                               *)
(***************************************************************************)
MaxLineLen == 4
MaxBlobLines == 3

\* the classes \w and \s of package regexp, and the white space of
\* strings.TrimSpace, over the characters of the model
WordChars == LowerChars \cup UpperChars \cup DigitChars \cup {"_"}
SpaceChars == {"\t", "\n", "\f", "\r", " "}

\* the first position from p on whose character is not in class
RECURSIVE Skip(_, _, _)
Skip(s, p, class) ==
    IF p <= Len(s) /\ s[p] \in class THEN Skip(s, p + 1, class) ELSE p

\* the first position from p on that holds "\n" (which . does not match)
RECURSIVE SkipLine(_, _)
SkipLine(s, p) ==
    IF p <= Len(s) /\ s[p] # "\n" THEN SkipLine(s, p + 1) ELSE p

\* database.go:88  (\w.+) matches at p
NameAt(s, p) ==
    /\ p + 1 <= Len(s)
    /\ s[p] \in WordChars
    /\ s[p + 1] # "\n"

\* database.go:88  the leftmost-first match of
\* (?:([0-9]+)[xX]?\s+)?(\w.+) that starts at p: the counted form is tried
\* first, then the bare name
MatchAt(s, p) ==
    LET d == Skip(s, p, DigitChars)
        x == IF d <= Len(s) /\ s[d] \in {"x", "X"} THEN d + 1 ELSE d
        w == Skip(s, x, SpaceChars)
    IN IF d > p /\ w > x /\ NameAt(s, w)
       THEN [ok |-> TRUE, count |-> SubSeq(s, p, d - 1),
             name |-> SubSeq(s, w, SkipLine(s, w + 1) - 1),
             end |-> SkipLine(s, w + 1)]
       ELSE IF NameAt(s, p)
       THEN [ok |-> TRUE, count |-> <<>>,
             name |-> SubSeq(s, p, SkipLine(s, p + 1) - 1),
             end |-> SkipLine(s, p + 1)]
       ELSE [ok |-> FALSE, count |-> <<>>, name |-> <<>>, end |-> p]

\* database.go:94  r.FindAllStringSubmatch(s, -1) from position p on
RECURSIVE FindAllStringSubmatch(_, _)
FindAllStringSubmatch(s, p) ==
    IF p > Len(s) THEN <<>>
    ELSE IF MatchAt(s, p).ok
    THEN <<MatchAt(s, p)>> \o FindAllStringSubmatch(s, MatchAt(s, p).end)
    ELSE FindAllStringSubmatch(s, p + 1)

\* the digits of the largest int (64 bits): 9223372036854775807
MaxIntDigits ==
    <<"9", "2", "2", "3", "3", "7", "2", "0", "3", "6", "8", "5", "4", "7",
      "7", "5", "8", "0", "7">>

\* a <= b for two digit strings of the same length
RECURSIVE DigitsLeq(_, _)
DigitsLeq(a, b) ==
    IF a = <<>> THEN TRUE
    ELSE IF DigitVal(Head(a)) # DigitVal(Head(b))
    THEN DigitVal(Head(a)) < DigitVal(Head(b))
    ELSE DigitsLeq(Tail(a), Tail(b))

\* the digit string s denotes a value that fits an int
FitsInt(s) ==
    LET t == TrimLeft(s, {"0"})
    IN \/ Len(t) < Len(MaxIntDigits)
       \/ Len(t) = Len(MaxIntDigits) /\ DigitsLeq(t, MaxIntDigits)

\* database.go:104  strconv.Atoi on the first submatch (digits or "")
Atoi(s) ==
    IF s # <<>> /\ (\A i \in 1..Len(s) : IsNumber(s[i])) /\ FitsInt(s)
    THEN [err |-> FALSE, val |-> DecimalVal(s)]
    ELSE [err |-> TRUE, val |-> 0]

\* strings.TrimSpace
TrimSpace(s) == Trim(s, SpaceChars)

\* database.go:87-110  ParseCardEntryLine: <<>> for nil, else <<the entry>>
ParseCardEntryLine(s) ==
    LET matches == FindAllStringSubmatch(s, 1)
    IN IF Len(matches) # 1 THEN <<>>
       ELSE <<CardEntry(TrimSpace(matches[1].name),
                        IF Atoi(matches[1].count).err THEN 1
                        ELSE Atoi(matches[1].count).val,
                        0, FALSE)>>

\* database.go:114  strings.Split(s, "\r\n")
RECURSIVE Split(_)
Split(s) ==
    LET at == { i \in 1..(Len(s) - 1) : s[i] = "\r" /\ s[i + 1] = "\n" }
    IN IF at = {} THEN <<s>>
       ELSE LET i == CHOOSE j \in at : \A k \in at : j <= k
            IN <<SubSeq(s, 1, i - 1)>> \o Split(SubSeq(s, i + 2, Len(s)))

\* database.go:112-121  ParseCardEntryLines over the pieces of the split
RECURSIVE ParseEach(_)
ParseEach(pieces) ==
    IF pieces = <<>> THEN <<>>
    ELSE ParseCardEntryLine(Head(pieces)) \o ParseEach(Tail(pieces))

\* database.go:112-121  ParseCardEntryLines
ParseCardEntryLines(s) == ParseEach(Split(s))

(***************************************************************************)
(* Inputs of the parser and the calls made on them.                        *)
(***************************************************************************)
LineChars == {"4", "0", "x", " ", "A", "b", "!", "\n"}

\* a line whose leading count does not fit an int
HugeCountLine ==
    <<"9", "9", "9", "9", "9", "9", "9", "9", "9", "9",
      "9", "9", "9", "9", "9", "9", "9", "9", "9", "9", " ", "A", "b">>

Lines == SeqsUpTo(LineChars, MaxLineLen) \cup {HugeCountLine}

CRLF == <<"\r", "\n">>
LF == <<"\n">>

\* the lines a decklist blob is made of
BlobLines ==
    { <<>>, <<" ">>, <<"A", "b">>, <<"2", " ", "A", "b">>, <<"b", "4">> }

\* the lines joined by the separator sep
RECURSIVE Join(_, _)
Join(lines, sep) ==
    IF Len(lines) = 1 THEN lines[1]
    ELSE lines[1] \o sep \o Join(Tail(lines), sep)

ParseCalls ==
    { [fn |-> "ParseCardEntryLine", s |-> l] : l \in Lines }
        \cup { [fn |-> "ParseCardEntryLines", lines |-> ls, sep |-> sep,
                s |-> Join(ls, sep)] :
                 ls \in SeqsUpTo(BlobLines, MaxBlobLines) \ {<<>>},
                 sep \in {CRLF, LF} }

\* database.go:87  a caller parses one line
CallParseCardEntryLine ==
    /\ call.fn = "ParseCardEntryLine"
    /\ ~ret.done
    /\ ret' = [done |-> TRUE, val |-> ParseCardEntryLine(call.s)]
    /\ UNCHANGED call

\* database.go:112  renderer.go:649-650  a caller parses a decklist blob
CallParseCardEntryLines ==
    /\ call.fn = "ParseCardEntryLines"
    /\ ~ret.done
    /\ ret' = [done |-> TRUE, val |-> ParseCardEntryLines(call.s)]
    /\ UNCHANGED call

(***************************************************************************)
(* Resolving a card name (prices.go:16, 182-194).                          *)
(***************************************************************************)
\* database.go:79  Free Money = 0
Free == 0

\* prices.go:16  freeCards
freeCards ==
    << <<"P", "l", "a", "i", "n", "s">>, <<"I", "s", "l", "a", "n", "d">>,
       <<"S", "w", "a", "m", "p">>, <<"M", "o", "u", "n", "t", "a", "i", "n">>,
       <<"F", "o", "r", "e", "s", "t">> >>

\* database.go:251-259  NameAndPrice, whose read of the store may also fail
NameAndPriceOrFail(coll, id) ==
    NameAndPrice(coll, id) \cup { [Name |-> <<>>, Price |-> Free, err |-> TRUE] }

\* prices.go:189-193  the result built from what db.NameAndPrice returned
FromCatalog(origName, r) ==
    IF r.err THEN [Name |-> origName, Price |-> Free, exists |-> FALSE]
    ELSE [Name |-> r.Name, Price |-> r.Price, exists |-> TRUE]

\* A mutant of calculateNameAndPrice: the catalog is asked for every name.
calculateNameAndPriceNoFree(coll, origName) ==
    { FromCatalog(origName, r) : r \in NameAndPriceOrFail(coll, nameToId(origName)) }

\* prices.go:182-194  calculateNameAndPrice: the results it can give
calculateNameAndPrice(coll, origName) ==
    LET id == nameToId(origName)
        hits == { i \in DOMAIN freeCards : id = nameToId(freeCards[i]) }
    IN IF hits # {}
       THEN { [Name |-> freeCards[CHOOSE i \in hits : \A j \in hits : i <= j],
               Price |-> Free, exists |-> TRUE] }
       ELSE { FromCatalog(origName, r) : r \in NameAndPriceOrFail(coll, id) }

\* the names users type
TypedNames ==
    { <<"I", "s", "l", "a", "n", "d">>, <<"i", "S", "-", "l", "a", "n", "d">>,
      <<"F", "O", "R", "E", "S", "T">>, <<"C">>, <<"c">>, <<"A", "b">>,
      <<"a", " ", "B">>, <<"x">> }

\* the catalogs a store can hold: none, one of two cards, and one that also
\* lists a free card
Catalogs ==
    { {},
      { PriceDbEntry(<<"C">>, 3), PriceDbEntry(<<"a", "-", "b">>, 5) },
      { PriceDbEntry(<<"C">>, 3), PriceDbEntry(<<"I", "s", "l", "a", "n", "d">>, 5) } }

ResolveCalls == { [fn |-> "calculateNameAndPrice", s |-> n] : n \in TypedNames }

\* prices.go:182  a caller resolves a card name
CallCalculateNameAndPrice ==
    /\ call.fn = "calculateNameAndPrice"
    /\ ~ret.done
    /\ \E res \in calculateNameAndPrice(prices, call.s) :
          ret' = [done |-> TRUE, val |-> res]
    /\ UNCHANGED call

(***************************************************************************)
(* Normalized names (database.go:419-438) and the calls of the two         *)
(* normalizations.                                                         *)
(***************************************************************************)
MaxNameLen == 3

\* A mutant of normalizeRune: an upper-case letter is kept as it is.
normalizeRuneKeepUpper(r) ==
    IF r \in LowerChars \/ IsNumber(r) \/ r \in UpperChars THEN r ELSE "-"

\* database.go:430-438  normalizeRune
normalizeRune(r) ==
    IF r \in LowerChars \/ IsNumber(r) THEN r
    ELSE IF r \in UpperChars THEN ToLower(r)
    ELSE "-"

\* database.go:419-428  normalizeString
RECURSIVE normalizeString(_)
normalizeString(s) ==
    IF s = <<>> THEN <<>>
    ELSE (IF Head(s) = "$" THEN <<>> ELSE <<normalizeRune(Head(s))>>)
            \o normalizeString(Tail(s))

NameChars == {"A", "b", "4", "$", "-", " "}
PunctChars == {"-", " ", "'"}

\* the other case of a letter
SwapCase(c) ==
    IF c \in UpperChars THEN ToLower(c)
    ELSE IF c \in LowerChars
    THEN UpperSeq[CHOOSE i \in DOMAIN LowerSeq : LowerSeq[i] = c]
    ELSE c

\* s with the case of its i-th character swapped
WithCaseSwapped(s, i) == [s EXCEPT ![i] = SwapCase(s[i])]

\* s with the character c put in before position i
WithInserted(s, i, c) == SubSeq(s, 1, i - 1) \o <<c>> \o SubSeq(s, i, Len(s))

\* pairs of names: t is s in another letter case, or s with one more
\* punctuation character or space
NamePairs ==
    UNION { { [s |-> n, t |-> WithCaseSwapped(n, i), rel |-> "case"] :
                i \in { j \in 1..Len(n) : SwapCase(n[j]) # n[j] } }
            \cup { [s |-> n, t |-> WithInserted(n, i, c), rel |-> "punct"] :
                     i \in 1..(Len(n) + 1), c \in PunctChars } :
            n \in SeqsUpTo(NameChars, MaxNameLen) }

NormalizeCalls ==
    { [fn |-> f, s |-> p.s, t |-> p.t, rel |-> p.rel] :
        f \in {"normalizeString", "nameToId"}, p \in NamePairs }

\* database.go:419  a caller normalizes s, normalizes the result again, and
\* normalizes t
CallNormalizeString ==
    /\ call.fn = "normalizeString"
    /\ ~ret.done
    /\ ret' = [done |-> TRUE,
               val |-> [s |-> normalizeString(call.s),
                        again |-> normalizeString(normalizeString(call.s)),
                        t |-> normalizeString(call.t)]]
    /\ UNCHANGED call

\* prices.go:149  the same with nameToId
CallNameToId ==
    /\ call.fn = "nameToId"
    /\ ~ret.done
    /\ ret' = [done |-> TRUE,
               val |-> [s |-> nameToId(call.s),
                        again |-> nameToId(nameToId(call.s)),
                        t |-> nameToId(call.t)]]
    /\ UNCHANGED call

(***************************************************************************)
(* Editing a deck (renderer.go:546-757, database.go:371-390,               *)
(* prices.go:160-180).  Decklist and Sideboard are []*CardEntry: the model *)
(* keeps the pointed-to entries in cells and their addresses in the        *)
(* slices.  Addresses are not observable, so after every operation the     *)
(* unreachable cells are dropped and the others renumbered.                *)
(***************************************************************************)
MaxHistory == 2

\* the elements of a sequence
Range(q) == { q[i] : i \in DOMAIN q }

\* database.go:39-45  a Snapshot whose slices hold addresses
SnapRef(decklist, sideboard, commander, grandfather) ==
    [Decklist |-> decklist, Sideboard |-> sideboard, Commander |-> commander,
     IsGrandfatherLegal |-> grandfather]

\* the Snapshot value that the snapshot sr denotes in the heap h
Deref(h, sr) ==
    Snapshot([i \in DOMAIN sr.Decklist |-> h[sr.Decklist[i]]],
             [i \in DOMAIN sr.Sideboard |-> h[sr.Sideboard[i]]],
             sr.Commander, sr.IsGrandfatherLegal)

\* the heap h with the entries stored at fresh addresses
Alloc(h, entries) ==
    [a \in 1..(Len(h) + Len(entries)) |->
        IF a <= Len(h) THEN h[a] ELSE entries[a - Len(h)]]

\* the addresses Alloc gives to k entries
NewAddrs(h, k) == [i \in 1..k |-> Len(h) + i]

\* A mutant of Clone: the card entries are shared, not copied.
CloneShallow(h, sr) == [cells |-> h, snap |-> sr]

\* database.go:371-390  Snapshot.Clone: every card entry is copied
Clone(h, sr) ==
    LET h1 == Alloc(h, [i \in DOMAIN sr.Decklist |-> h[sr.Decklist[i]]])
        h2 == Alloc(h1, [i \in DOMAIN sr.Sideboard |-> h[sr.Sideboard[i]]])
    IN [cells |-> h2,
        snap |-> SnapRef(NewAddrs(h, Len(sr.Decklist)),
                         NewAddrs(h1, Len(sr.Sideboard)),
                         sr.Commander, sr.IsGrandfatherLegal)]

\* prices.go:182-194  calculateNameAndPrice while the store answers (up) or
\* while every lookup fails
calculateNameAndPriceWhen(coll, origName, up) ==
    LET all == calculateNameAndPrice(coll, origName)
        failed == [Name |-> origName, Price |-> Free, exists |-> FALSE]
    IN IF up THEN CHOOSE r \in all : r # failed \/ all = {failed}
       ELSE CHOOSE r \in all : r = failed \/ failed \notin all

\* prices.go:175-180  CardEntry.calculateNameAndPrice
PricedCard(coll, c, up) ==
    LET r == calculateNameAndPriceWhen(coll, c.Name, up)
    IN CardEntry(r.Name, c.Count, r.Price, ~r.exists)

\* prices.go:161-166  the commander after CalculatePrices
PricedCommander(coll, cmd, up) ==
    IF cmd.IsPresent
    THEN LET r == calculateNameAndPriceWhen(coll, cmd.Name, up)
         IN CommanderEntry(r.Name, r.Price, TRUE, ~r.exists)
    ELSE cmd

\* prices.go:160-173  Snapshot.CalculatePrices: the entries are updated in
\* place, through the pointers of the slices
CalculatePrices(h, sr, coll, up) ==
    [cells |-> [a \in DOMAIN h |->
                  IF a \in Range(sr.Decklist) \cup Range(sr.Sideboard)
                  THEN PricedCard(coll, h[a], up) ELSE h[a]],
     snap |-> [sr EXCEPT !.Commander = PricedCommander(coll, sr.Commander, up)]]

\* every address a deck reaches, staging area first, in slice order
RECURSIVE SnapAddrs(_)
SnapAddrs(snaps) ==
    IF snaps = <<>> THEN <<>>
    ELSE Head(snaps).Decklist \o Head(snaps).Sideboard \o SnapAddrs(Tail(snaps))

Reached(d) == SnapAddrs(<<d.StagingArea>> \o d.Snapshots)

\* the sequence q without the elements of seen and without repetitions
RECURSIVE Distinct(_, _)
Distinct(q, seen) ==
    IF q = <<>> THEN <<>>
    ELSE IF Head(q) \in seen THEN Distinct(Tail(q), seen)
    ELSE <<Head(q)>> \o Distinct(Tail(q), seen \cup {Head(q)})

\* the place of a in the sequence q
Index(q, a) == CHOOSE i \in DOMAIN q : q[i] = a

Renumbered(order, sr) ==
    [sr EXCEPT !.Decklist = [i \in DOMAIN sr.Decklist |-> Index(order, sr.Decklist[i])],
               !.Sideboard = [i \in DOMAIN sr.Sideboard |-> Index(order, sr.Sideboard[i])]]

\* the garbage collector: the cells d reaches, renumbered by first use
Collected(h, d) ==
    CHOOSE c \in
        { [cells |-> [r \in DOMAIN order |-> h[order[r]]],
           ed |-> [d EXCEPT !.StagingArea = Renumbered(order, d.StagingArea),
                            !.Snapshots = [i \in DOMAIN d.Snapshots |->
                                              Renumbered(order, d.Snapshots[i])]]] :
          order \in {Distinct(Reached(d), {})} } : TRUE

\* database.go:31-37  a Deck whose snapshots hold addresses
DeckRef(name, priceLimit, stagingArea, snapshots) ==
    [Name |-> name, PriceLimit |-> priceLimit, StagingArea |-> stagingArea,
     Snapshots |-> snapshots]

\* renderer.go:535  the deck performAddDeck creates
NewDeck == DeckRef(<<"D">>, 3, SnapRef(<<>>, <<>>, NoCommander, FALSE), <<>>)

\* the form values of the handlers
UpdateForms ==
    { [commander |-> <<>>, decklist |-> <<"2", " ", "A", "b">>,
       sideboard |-> <<>>, grandfather |-> <<>>],
      [commander |-> <<" ", "C">>, decklist |-> <<"C", "\r", "\n", "A", "b">>,
       sideboard |-> <<"A", "b">>, grandfather |-> <<"o", "n">>] }
DeckNameForms == { <<"E">> }
PriceForms == { <<"5">> }

\* the catalog while the deck is edited
EditCatalog == { PriceDbEntry(<<"C">>, 3), PriceDbEntry(<<"A", "b">>, 5) }

\* db.UpdateUser has stored the deck; c is the collected heap and deck
Stored(c, name) ==
    \E k \in {c} :
        /\ cells' = k.cells
        /\ ed' = k.ed
        /\ op' = name

\* A mutant of AppendSnapshot: the new snapshot becomes the oldest.
PrependSnapshot(snaps, snap) == <<snap>> \o snaps

\* renderer.go:689  deck.Snapshots = append(deck.Snapshots, snap)
AppendSnapshot(snaps, snap) == Append(snaps, snap)

\* renderer.go:670-698  performSaveSnapshot
performSaveSnapshot ==
    /\ Len(ed.Snapshots) < MaxHistory
    /\ \E c \in {Clone(cells, ed.StagingArea)} :
          Stored(Collected(c.cells,
                    [ed EXCEPT !.Snapshots = AppendSnapshot(@, c.snap)]), "save")

\* renderer.go:700-730  performRevertChanges
performRevertChanges ==
    /\ Len(ed.Snapshots) # 0
    /\ \E c \in {Clone(cells, ed.Snapshots[Len(ed.Snapshots)])} :
          Stored(Collected(c.cells, [ed EXCEPT !.StagingArea = c.snap]), "revert")

\* renderer.go:641-647  the commander of the staging area after the update
UpdatedCommander(cmd, commander) ==
    IF commander = <<>> THEN [cmd EXCEPT !.IsPresent = FALSE]
    ELSE [cmd EXCEPT !.IsPresent = TRUE, !.Name = TrimSpace(commander),
                     !.Price = Free]

\* renderer.go:641-654  the staging area built from the form f, priced
UpdatedStaging(h, staging, f, coll, up) ==
    CHOOSE c \in
        { CalculatePrices(Alloc(Alloc(h, dl), sb),
                          SnapRef(NewAddrs(h, Len(dl)),
                                  NewAddrs(Alloc(h, dl), Len(sb)),
                                  UpdatedCommander(staging.Commander, f.commander),
                                  f.grandfather # <<>>),
                          coll, up) :
          dl \in {ParseCardEntryLines(f.decklist)},
          sb \in {ParseCardEntryLines(f.sideboard)} } : TRUE

\* renderer.go:620-668  performUpdateDecklist
performUpdateDecklist ==
    \E f \in UpdateForms, up \in BOOLEAN :
        \E c \in {UpdatedStaging(cells, ed.StagingArea, f, prices, up)} :
            Stored(Collected(c.cells, [ed EXCEPT !.StagingArea = c.snap]), "update")

\* renderer.go:546-583  performModifyDeck (of a user with this one deck)
performModifyDeck ==
    \E newName \in DeckNameForms, price \in PriceForms :
        /\ ~Atoi(price).err
        /\ Stored(Collected(cells, [ed EXCEPT !.Name = newName,
                                              !.PriceLimit = Atoi(price).val]),
                  "modify")

\* renderer.go:732-757  performClearHistory
performClearHistory ==
    Stored(Collected(cells, [ed EXCEPT !.Snapshots = <<>>]), "clear")

\* prices.go:160  the prices of the staging area are calculated again
Recalculate ==
    \E up \in BOOLEAN :
        \E c \in {CalculatePrices(cells, ed.StagingArea, prices, up)} :
            Stored(Collected(c.cells, [ed EXCEPT !.StagingArea = c.snap]), "recalc")

\* database.go:371  a caller clones the staging area (i = 0) or the i-th
\* snapshot and changes the first card of the clone's decklist in place
MutateClone ==
    \E i \in 0..Len(ed.Snapshots) :
        \E src \in {IF i = 0 THEN ed.StagingArea ELSE ed.Snapshots[i]} :
            /\ src.Decklist # <<>>
            /\ \E c \in {Clone(cells, src)} :
                  Stored(Collected([c.cells EXCEPT
                                      ![c.snap.Decklist[1]].Count = @ + 1,
                                      ![c.snap.Decklist[1]].PricePer = @ + 1],
                                   ed), "mutate")

\* no deck is being edited
EditIdle ==
    /\ cells = <<>>
    /\ ed = NewDeck
    /\ op = "none"

(***************************************************************************)
(* The users collection (database.go:283-315).  net/http serves every      *)
(* request on a goroutine of its own, so several AddUser calls run at the  *)
(* same time; each is a read of the collection followed by an insert.      *)
(***************************************************************************)
MaxRequests == 2
MaxUsers == 3

Requests == 1..MaxRequests

\* the user names the sign-up form sends
UserNames == { <<"A", "b">>, <<"a", "b">>, <<"c">> }

\* a request that is not inside AddUser; err is what its last call returned
Returned(name, err) == [pc |-> "idle", name |-> name, err |-> err]

\* database.go:283-299  FindUser: whether a stored user has the normalized name
FindUser(coll, name) ==
    \E i \in DOMAIN coll : normalizeString(name) = normalizeString(coll[i])

\* renderer.go:448  a request calls db.AddUser(name, passwordHash)
AddUserCall(r) ==
    /\ reqs[r].pc = "idle"
    /\ \E name \in UserNames :
          reqs' = [reqs EXCEPT ![r] = [pc |-> "FindUser", name |-> name, err |-> "none"]]
    /\ UNCHANGED users

\* database.go:302-304  AddUser reads the collection and returns
\* UserAlreadyExistsError unless no user was found
AddUserFind(r) ==
    /\ reqs[r].pc = "FindUser"
    /\ reqs' = [reqs EXCEPT ![r] =
                  IF FindUser(users, reqs[r].name)
                  THEN Returned(reqs[r].name, "UserAlreadyExistsError")
                  ELSE [@ EXCEPT !.pc = "Insert"]]
    /\ UNCHANGED users

\* database.go:306-309  AddUser inserts the user and returns it
AddUserInsert(r) ==
    /\ reqs[r].pc = "Insert"
    /\ Len(users) < MaxUsers
    /\ users' = Append(users, reqs[r].name)
    /\ reqs' = [reqs EXCEPT ![r] = Returned(reqs[r].name, "nil")]

\* the collection without its first document named name
RECURSIVE RemoveOne(_, _)
RemoveOne(coll, name) ==
    IF coll = <<>> THEN <<>>
    ELSE IF Head(coll) = name THEN Tail(coll)
    ELSE <<Head(coll)>> \o RemoveOne(Tail(coll), name)

\* database.go:312-315  DeleteUser of a logged-in user: c.Remove takes out one
\* document with the user's name
DeleteUser ==
    /\ \E i \in DOMAIN users : users' = RemoveOne(users, users[i])
    /\ UNCHANGED reqs

\* no user is stored and no request is being served
UsersIdle ==
    /\ users = <<>>
    /\ reqs = [r \in Requests |-> Returned(<<>>, "none")]

(***************************************************************************)
(* Sessions (renderer.go:116-140, 395-451).  A session key is 32 random    *)
(* bytes; the model numbers the keys in the order they are made, so no two *)
(* keys made are equal.  0 is the empty key []byte{}, -1 a cookie value    *)
(* that was never set.                                                     *)
(***************************************************************************)
MaxKeys == 3
MaxBrowsers == 2

Browsers == 1..MaxBrowsers
AccountNames == {"ann", "bob"}
NoKey == 0
Unset == -1

\* renderer.go:116-129  findLoggedInUser: the name of the logged-in user of
\* the request of browser b, "" for UserNotFoundError
findLoggedInUser(b) ==
    IF /\ cookies[b].user # ""
       /\ cookies[b].key # Unset
       /\ cookies[b].user \in DOMAIN sessionKey
       /\ sessionKey[cookies[b].user] = cookies[b].key
    THEN cookies[b].user ELSE ""

\* the history once key is stored for name
Issue(name, key) ==
    [last |-> [n \in DOMAIN issued.last \cup {name} |->
                  IF n = name THEN key ELSE issued.last[n]],
     retired |-> issued.retired \cup
                   (IF name \in DOMAIN sessionKey THEN {sessionKey[name]} ELSE {})]

\* renderer.go:131-140  updateSessionKey for the request of browser b, whose
\* cookie already names the user; stored is the collection before the call
\* and updateOk tells whether db.UpdateUser succeeds
updateSessionKey(b, name, stored, updateOk) ==
    /\ keysMade < MaxKeys
    /\ keysMade' = keysMade + 1
    /\ IF updateOk
       THEN /\ sessionKey' = [n \in DOMAIN stored |->
                                 IF n = name THEN keysMade + 1 ELSE stored[n]]
            /\ cookies' = [cookies EXCEPT ![b] = [user |-> name, key |-> keysMade + 1]]
            /\ issued' = Issue(name, keysMade + 1)
       ELSE /\ sessionKey' = stored
            /\ cookies' = [cookies EXCEPT ![b].user = name]
            /\ UNCHANGED issued

\* renderer.go:395-418  performLogin (passwordOk: the password matches the hash)
performLogin(b) ==
    \E name \in AccountNames, passwordOk \in BOOLEAN, updateOk \in BOOLEAN :
        /\ name \in DOMAIN sessionKey
        /\ passwordOk
        /\ updateSessionKey(b, name, sessionKey, updateOk)

\* renderer.go:435-463  performAddUser: db.AddUser stores the user with an
\* empty session key, then the key is issued
performAddUser(b) ==
    \E name \in AccountNames, updateOk \in BOOLEAN :
        /\ name \notin DOMAIN sessionKey
        /\ updateSessionKey(b, name,
                [n \in DOMAIN sessionKey \cup {name} |->
                    IF n = name THEN NoKey ELSE sessionKey[n]],
                updateOk)

\* A mutant of ClearedKey: logging out leaves the session key as it is.
KeptKey(key) == key

\* renderer.go:425  user.SessionKey = []byte{}
ClearedKey(key) == NoKey

\* renderer.go:420-433  performLogout
performLogout(b) ==
    /\ findLoggedInUser(b) # ""
    /\ \E updateOk \in BOOLEAN :
          IF updateOk
          THEN /\ sessionKey' = [sessionKey EXCEPT ![findLoggedInUser(b)] = ClearedKey(@)]
               /\ issued' = [issued EXCEPT !.retired = @ \cup {cookies[b].key}]
          ELSE UNCHANGED <<sessionKey, issued>>
    /\ UNCHANGED <<cookies, keysMade>>

\* no user is stored and no browser holds a cookie
SessIdle ==
    /\ sessionKey = [n \in {} |-> NoKey]
    /\ cookies = [b \in Browsers |-> [user |-> "", key |-> Unset]]
    /\ keysMade = 0
    /\ issued = [last |-> [n \in {} |-> NoKey], retired |-> {}]

(***************************************************************************)
(* The decks of one user (renderer.go:512-618): their names.               *)
(***************************************************************************)
MaxDecks == 3

\* the deck names and the prices the forms send
DeckNames ==
    { <<"A", "b">>, <<"a", "b">>, <<"a", " ", "b">>, <<"a", "-", "b">>, <<"c">> }
DeckPrices == { <<"5">>, <<"x">> }

\* A mutant of FindDeck: the names are compared as they were typed.
FindDeckExact(decks, name) ==
    IF \E i \in DOMAIN decks : decks[i] = name
    THEN CHOOSE i \in DOMAIN decks :
            /\ decks[i] = name
            /\ \A j \in 1..(i - 1) : decks[j] # name
    ELSE 0

\* database.go:157-164  User.FindDeck: the index of the first deck whose
\* normalized name is that of name, 0 for nil
FindDeck(decks, name) ==
    IF \E i \in DOMAIN decks : normalizeString(decks[i]) = normalizeString(name)
    THEN CHOOSE i \in DOMAIN decks :
            /\ normalizeString(decks[i]) = normalizeString(name)
            /\ \A j \in 1..(i - 1) : normalizeString(decks[j]) # normalizeString(name)
    ELSE 0

\* the handler has returned err; decks is what db.UpdateUser stored, if called
Replied(kind, orig, name, err, decks) ==
    /\ deckReq' = [op |-> kind, orig |-> orig, name |-> name, err |-> err]
    /\ userDecks' = decks

\* renderer.go:512-544  performAddDeck
performAddDeck ==
    \E name \in DeckNames, price \in DeckPrices, updateOk \in BOOLEAN :
        /\ Len(userDecks) < MaxDecks
        /\ IF Atoi(price).err
           THEN Replied("add", <<>>, name, "Price incorrectly formatted", userDecks)
           ELSE IF FindDeck(userDecks, name) # 0
           THEN Replied("add", <<>>, name, "already exists", userDecks)
           ELSE IF ~updateOk
           THEN Replied("add", <<>>, name, "store", userDecks)
           ELSE Replied("add", <<>>, name, "nil", Append(userDecks, name))

\* renderer.go:546-583  performModifyDeck of a user with several decks
performModifyDeckOfUser ==
    \E origName \in DeckNames, newName \in DeckNames, price \in DeckPrices,
       updateOk \in BOOLEAN :
        \E found \in {FindDeck(userDecks, origName)}, d \in {FindDeck(userDecks, newName)} :
            IF Atoi(price).err
            THEN Replied("modify", origName, newName, "Price incorrectly formatted", userDecks)
            ELSE IF found = 0
            THEN Replied("modify", origName, newName, "doesn't exist", userDecks)
            ELSE IF d # 0 /\ userDecks[d] # userDecks[found]
            THEN Replied("modify", origName, newName, "already exists", userDecks)
            ELSE IF ~updateOk
            THEN Replied("modify", origName, newName, "store", userDecks)
            ELSE Replied("modify", origName, newName, "nil",
                         [userDecks EXCEPT ![found] = newName])

\* renderer.go:585-618  performDeleteDeck
performDeleteDeck ==
    \E deckName \in DeckNames, updateOk \in BOOLEAN :
        \E found \in {FindDeck(userDecks, deckName)} :
            IF found = 0
            THEN Replied("delete", <<>>, deckName, "doesn't exist", userDecks)
            ELSE IF ~updateOk
            THEN Replied("delete", <<>>, deckName, "store", userDecks)
            ELSE Replied("delete", <<>>, deckName, "nil",
                         SubSeq(userDecks, 1, found - 1)
                            \o SubSeq(userDecks, found + 1, Len(userDecks)))

\* a user without decks
NamesIdle ==
    /\ userDecks = <<>>
    /\ deckReq = [op |-> "none", orig |-> <<>>, name |-> <<>>, err |-> "nil"]

NoLookup == [id |-> <<>>, res |-> [Name |-> <<>>, Price |-> 0, err |-> TRUE]]

\* init.go:7-16  Init: the database is opened and ScrapeForever started once;
\* catalog is what the "prices" collection holds from earlier processes
SchedStart(catalog) ==
    /\ clock = 0
    /\ tickChan = <<>>
    /\ pc = "idle"
    /\ statsRead = "none"
    /\ setLinks = 0
    /\ lowestPrice = EmptyMap
    /\ pendingStats = NoStats
    /\ prices = catalog
    /\ scraperStats = {}
    /\ lookup = NoLookup
    /\ running = 0
    /\ observed = {}
    /\ pricesAtStart = {}
    /\ outcome = "none"
    /\ lastEnd = -1
    /\ lastGood = {}

\* init.go:7-16  Init on an empty database
SchedInit == SchedStart({})

\* no pure function is being called
PureIdle ==
    /\ call = [fn |-> "none"]
    /\ ret = [done |-> FALSE]

\* renderer.go:535  a new deck: no snapshot, an empty staging area
DeckIdle ==
    /\ deck = Deck(0, ZeroSnapshot, <<>>)
    /\ best = -1
    /\ legal = "unset"
    /\ isLegal = "unset"

Init ==
    /\ site = SitePoor
    /\ SchedInit
    /\ DeckIdle
    /\ PureIdle
    /\ EditIdle
    /\ UsersIdle
    /\ SessIdle
    /\ NamesIdle

Next ==
    \/ Advance /\ UNCHANGED notSched
    \/ Tick /\ UNCHANGED notSched
    \/ ReceiveTick /\ UNCHANGED notSched
    \/ FetchIndex /\ UNCHANGED notSched
    \/ ScrapePage /\ UNCHANGED notSched
    \/ UpdateRemoveAll /\ UNCHANGED notSched
    \/ UpdateInsert /\ UNCHANGED notSched
    \/ StatsRemoveAll /\ UNCHANGED notSched
    \/ StatsInsert /\ UNCHANGED notSched
    \/ Lookup /\ UNCHANGED notSched

Spec == Init /\ [][Next]_vars

\* database.go:147  SetScraperStats: c.RemoveAll(nil) returned no error
StatsCleared == StatsRemoveAll /\ pc' = "stats_insert" /\ UNCHANGED notSched

\* database.go:150  SetScraperStats: c.Insert(s) stored the record
StatsStored == StatsInsert /\ scraperStats' = {pendingStats} /\ UNCHANGED notSched

\* prices.go:18-38  The ticker keeps ticking, the goroutine of ScrapeForever
\* keeps being scheduled, every fetch and every store call returns, and
\* the store does not refuse the stats record for ever.
SpecLive ==
    /\ Spec
    /\ WF_vars(Tick /\ UNCHANGED notSched)
    /\ WF_vars(ReceiveTick /\ UNCHANGED notSched)
    /\ WF_vars(FetchIndex /\ UNCHANGED notSched)
    /\ WF_vars(ScrapePage /\ UNCHANGED notSched)
    /\ WF_vars(UpdateRemoveAll /\ UNCHANGED notSched)
    /\ WF_vars(UpdateInsert /\ UNCHANGED notSched)
    /\ SF_vars(StatsCleared)
    /\ SF_vars(StatsStored)

InitScrape ==
    /\ site = SiteRich
    /\ SchedInit
    /\ DeckIdle
    /\ PureIdle
    /\ EditIdle
    /\ UsersIdle
    /\ SessIdle
    /\ NamesIdle

NextScrape ==
    \/ Tick /\ UNCHANGED notSched
    \/ ReceiveTick /\ UNCHANGED notSched
    \/ FetchIndex /\ UNCHANGED notSched
    \/ ScrapePage /\ UNCHANGED notSched
    \/ UpdateRemoveAll /\ UNCHANGED notSched
    \/ UpdateInsert /\ UNCHANGED notSched
    \/ StatsRemoveAll /\ UNCHANGED notSched
    \/ StatsInsert /\ UNCHANGED notSched

SpecScrape == InitScrape /\ [][NextScrape]_vars

InitDeck ==
    /\ site = SitePoor
    /\ SchedInit
    /\ PureIdle
    /\ EditIdle
    /\ UsersIdle
    /\ SessIdle
    /\ NamesIdle
    /\ deck \in DeckInputs
    /\ best = -1
    /\ legal = "unset"
    /\ isLegal = "unset"

NextDeck ==
    \/ CallCurrentPriceSnapshot /\ UNCHANGED notDeck
    \/ CallIsStagingAreaLegal /\ UNCHANGED notDeck
    \/ CallIsLegal /\ UNCHANGED notDeck

SpecDeck == InitDeck /\ [][NextDeck]_vars

InitPure ==
    /\ site = SitePoor
    /\ DeckIdle
    /\ EditIdle
    /\ UsersIdle
    /\ SessIdle
    /\ NamesIdle
    /\ ret = [done |-> FALSE]
    /\ \/ call \in ParseCalls /\ SchedInit
       \/ call \in NormalizeCalls /\ SchedInit
       \/ call \in ResolveCalls /\ \E catalog \in Catalogs : SchedStart(catalog)

NextPure ==
    \/ CallNormalizeString /\ UNCHANGED notPure
    \/ CallNameToId /\ UNCHANGED notPure
    \/ CallCalculateNameAndPrice /\ UNCHANGED notPure
    \/ CallParseCardEntryLine /\ UNCHANGED notPure
    \/ CallParseCardEntryLines /\ UNCHANGED notPure

SpecPure == InitPure /\ [][NextPure]_vars

InitEdit ==
    /\ site = SitePoor
    /\ SchedStart(EditCatalog)
    /\ DeckIdle
    /\ PureIdle
    /\ EditIdle
    /\ UsersIdle
    /\ SessIdle
    /\ NamesIdle

NextEdit ==
    \/ performSaveSnapshot /\ UNCHANGED notEdit
    \/ performRevertChanges /\ UNCHANGED notEdit
    \/ performUpdateDecklist /\ UNCHANGED notEdit
    \/ performModifyDeck /\ UNCHANGED notEdit
    \/ performClearHistory /\ UNCHANGED notEdit
    \/ Recalculate /\ UNCHANGED notEdit
    \/ MutateClone /\ UNCHANGED notEdit

SpecEdit == InitEdit /\ [][NextEdit]_vars

InitUsers ==
    /\ site = SitePoor
    /\ SchedInit
    /\ DeckIdle
    /\ PureIdle
    /\ EditIdle
    /\ UsersIdle
    /\ SessIdle
    /\ NamesIdle

NextUsers ==
    \/ (\E r \in Requests : AddUserCall(r)) /\ UNCHANGED notUser
    \/ (\E r \in Requests : AddUserFind(r)) /\ UNCHANGED notUser
    \/ (\E r \in Requests : AddUserInsert(r)) /\ UNCHANGED notUser
    \/ DeleteUser /\ UNCHANGED notUser

SpecUsers == InitUsers /\ [][NextUsers]_vars

InitSess ==
    /\ site = SitePoor
    /\ SchedInit
    /\ DeckIdle
    /\ PureIdle
    /\ EditIdle
    /\ UsersIdle
    /\ SessIdle
    /\ NamesIdle

NextSess ==
    \/ (\E b \in Browsers : performAddUser(b)) /\ UNCHANGED notSess
    \/ (\E b \in Browsers : performLogin(b)) /\ UNCHANGED notSess
    \/ (\E b \in Browsers : performLogout(b)) /\ UNCHANGED notSess

SpecSess == InitSess /\ [][NextSess]_vars

InitNames ==
    /\ site = SitePoor
    /\ SchedInit
    /\ DeckIdle
    /\ PureIdle
    /\ EditIdle
    /\ UsersIdle
    /\ SessIdle
    /\ NamesIdle

NextNames ==
    \/ performAddDeck /\ UNCHANGED notNames
    \/ performModifyDeckOfUser /\ UNCHANGED notNames
    \/ performDeleteDeck /\ UNCHANGED notNames

SpecNames == InitNames /\ [][NextNames]_vars

(***************************************************************************)
(* Properties.                                                             *)
(***************************************************************************)
UniqueIDs(coll) == \A e1 \in coll : \A e2 \in coll : e1.ID = e2.ID => e1 = e2

\* C1: when a run ends in a fetch failure (index or listing page) or on a
\* malformed price text, the catalog is what it was when the run started;
\* nor does it change while the run is still fetching and parsing.
C1_AbortLeavesCatalog ==
    /\ pc \in {"index", "pages"} => prices = pricesAtStart
    /\ outcome \in {"fetch", "parse"} => prices = pricesAtStart

\* A run over a non-empty catalog has failed on a fetch or a parse.
C1_Witness ==
    /\ outcome \in {"fetch", "parse"}
    /\ pc \in {"stats_remove", "crashed"}
    /\ prices # {}

\* C2: a NameAndPrice lookup made while UpdateAllPrices is under way returns
\* what the complete previous catalog or the complete new catalog gives.
C2_AtomicReplace ==
    [][(lookup' # lookup /\ pc \in {"update_remove", "update_insert"})
         => lookup'.res \in NameAndPrice(pricesAtStart, lookup'.id)
                \cup NameAndPrice(AllEntries(lowestPrice), lookup'.id)]_vars

\* C3: at most one scrape run is in flight at any time.
C3_OneRunInFlight == running <= 1

\* A run is in flight while a tick waits in the channel that, by the record
\* in the store, would itself start a run.
C3_Witness ==
    /\ running = 1
    /\ pc = "pages"
    /\ tickChan # <<>>
    /\ \E st \in scraperStats : st.LastPriceUpdate + waitBetweenScrapes < tickChan[1]

\* C4 as claimed: once an attempt has finished, no run starts before the
\* refresh window has elapsed since then.
C4_OncePerWindow ==
    [][(running' > running /\ lastEnd >= 0)
         => lastEnd + waitBetweenScrapes <= clock]_vars

\* C4 amended: a check starts a run only if the stats record is absent or
\* unreadable, or the refresh window has elapsed since the stored record's
\* time.
C4_RunOnlyWhenStale ==
    [][running' > running
         => \/ statsRead' \in {"absent", "unreadable"}
            \/ \E st \in scraperStats :
                  st.LastPriceUpdate + waitBetweenScrapes < clock]_vars

\* A run has started on a record that was read and found stale.
C4_Witness ==
    /\ pc = "index"
    /\ statsRead = "ok"
    /\ scraperStats # {}

\* C5: every attempt that has ended, however it ended, has handed a stats
\* record with its outcome to SetScraperStats, and the scheduler loop lives.
C5_AttemptRecorded ==
    outcome \notin {"none", "running"}
        => /\ pc # "crashed"
           /\ pendingStats.LastPriceUpdateError = outcome

\* C6: the reconciled map holds exactly the IDs observed in the run, each
\* with an observed entry of that ID whose price is the least observed for
\* it; a successful run leaves exactly these entries in the catalog.
C6_Reconciled ==
    /\ pc \in {"pages", "update_remove", "update_insert"} \/ outcome = "nil"
         => /\ DOMAIN lowestPrice = { e.ID : e \in observed }
            /\ \A id \in DOMAIN lowestPrice :
                  /\ lowestPrice[id] \in observed
                  /\ lowestPrice[id].ID = id
                  /\ \A e \in observed :
                        e.ID = id => lowestPrice[id].Price <= e.Price
    /\ outcome = "nil"
         => /\ prices = AllEntries(lowestPrice)
            /\ Cardinality(prices) = Cardinality({ e.ID : e \in observed })

\* A run has succeeded that saw one ID under two names at two prices, the
\* dearer one first, and another ID.
C6_Witness ==
    /\ outcome = "nil"
    /\ \E e1 \in observed : \E e2 \in observed : \E e3 \in observed :
          /\ e1.ID = e2.ID
          /\ e1.Name # e2.Name
          /\ e1.Price < e2.Price
          /\ e3.ID # e1.ID
          /\ e1 \in prices
          /\ e3 \in prices

\* C7: between runs the catalog has one entry per ID and is the reconciled
\* set of the most recent successful run.
C7_CatalogIsLastSuccess ==
    (pc = "idle" /\ lastGood # {}) => (prices \in lastGood /\ UniqueIDs(prices))

\* The snapshots from index i on all have identical cards to the last one.
InTrailingRun(snaps, i) ==
    \A j \in i..Len(snaps) : HasIdenticalCards(snaps[j], snaps[Len(snaps)])

\* C8: CurrentPriceSnapshot gives nil for a deck without snapshots; otherwise
\* a snapshot of the maximal trailing run of snapshots whose cards are
\* identical to the last one's, of the least total price in that run.
C8_BestOfTrailingRun ==
    best # -1 =>
        IF Len(deck.Snapshots) = 0 THEN best = 0
        ELSE /\ best \in 1..Len(deck.Snapshots)
             /\ InTrailingRun(deck.Snapshots, best)
             /\ \A i \in 1..Len(deck.Snapshots) :
                   InTrailingRun(deck.Snapshots, i)
                      => TotalPrice(deck.Snapshots[best])
                            <= TotalPrice(deck.Snapshots[i])

\* The oldest snapshot has the cards of the last one and is cheaper, the one
\* between them differs, and the call has returned the last one.
C8_Witness ==
    /\ Len(deck.Snapshots) = 3
    /\ HasIdenticalCards(deck.Snapshots[1], deck.Snapshots[3])
    /\ ~HasIdenticalCards(deck.Snapshots[2], deck.Snapshots[3])
    /\ TotalPrice(deck.Snapshots[1]) < TotalPrice(deck.Snapshots[3])
    /\ best = 3

\* The present commander or some decklist or sideboard entry is not found.
HasNotFound(s) ==
    \/ s.Commander.IsPresent /\ s.Commander.NotFound
    \/ \E c \in { s.Decklist[i] : i \in DOMAIN s.Decklist } : c.NotFound
    \/ \E c \in { s.Sideboard[i] : i \in DOMAIN s.Sideboard } : c.NotFound

\* C9: a snapshot with a notFound entry is never legal.
C9_NotFoundNeverLegal ==
    (legal # "unset" /\ HasNotFound(deck.StagingArea)) => legal = "illegal"

\* A grandfathered snapshot within the price limit, whose only notFound
\* entry is in the sideboard, was found illegal.
C9_Witness ==
    /\ legal = "illegal"
    /\ deck.StagingArea.IsGrandfatherLegal
    /\ TotalPrice(deck.StagingArea) <= deck.PriceLimit
    /\ ~AnyNotFound(deck.StagingArea.Decklist)
    /\ ~deck.StagingArea.Commander.IsPresent
    /\ AnyNotFound(deck.StagingArea.Sideboard)

\* C10: a snapshot without notFound entry is legal exactly if it is
\* grandfathered or its total price is at most the deck's price limit.
C10_LegalIffWithinLimit ==
    (legal # "unset" /\ ~HasNotFound(deck.StagingArea))
        => (legal = "legal"
              <=> \/ deck.StagingArea.IsGrandfatherLegal
                  \/ TotalPrice(deck.StagingArea) <= deck.PriceLimit)

\* A snapshot that is not grandfathered and costs exactly the limit was
\* found legal; its absent commander still carries a notFound mark.
C10_Witness ==
    /\ legal = "legal"
    /\ ~deck.StagingArea.IsGrandfatherLegal
    /\ TotalPrice(deck.StagingArea) = deck.PriceLimit
    /\ deck.StagingArea.Decklist # <<>>
    /\ ~deck.StagingArea.Commander.IsPresent
    /\ deck.StagingArea.Commander.NotFound

\* C11: for a deck without snapshots IsLegal returns false, whatever the
\* staging area is.
C11_NoSnapshotsIllegal ==
    (isLegal # "unset" /\ Len(deck.Snapshots) = 0) => isLegal = "illegal"

\* C19: of the snapshots of the trailing run that share the least total
\* price, CurrentPriceSnapshot returns the most recent: every snapshot after
\* the returned one costs strictly more.
C19_MostRecentOnTie ==
    best >= 1 =>
        \A i \in (best + 1)..Len(deck.Snapshots) :
            TotalPrice(deck.Snapshots[i]) > TotalPrice(deck.Snapshots[best])

\* An older snapshot of the trailing run costs the same as the returned one,
\* and a newer one costs more.
C19_Witness ==
    /\ best = 2
    /\ Len(deck.Snapshots) = 3
    /\ InTrailingRun(deck.Snapshots, 1)
    /\ TotalPrice(deck.Snapshots[1]) = TotalPrice(deck.Snapshots[2])
    /\ TotalPrice(deck.Snapshots[3]) > TotalPrice(deck.Snapshots[2])

\* C14: every entry the parser emits has a count of at least 1.
C14_CountAtLeastOne ==
    (call.fn \in {"ParseCardEntryLine", "ParseCardEntryLines"} /\ ret.done)
        => \A i \in 1..Len(ret.val) : ret.val[i].Count >= 1

\* C15: the entries of a blob are, in order, the entries of its lines,
\* whether the lines are separated by "\r\n" or by "\n".
C15_EntriesOfEachLine ==
    (call.fn = "ParseCardEntryLines" /\ ret.done)
        => ret.val = ParseEach(call.lines)

\* What C16 says a line yields: after an optional leading integer count and
\* white space, the remaining trimmed text is the name; no entry if the name
\* is empty.
ClaimedEntry(line) ==
    LET d == Skip(line, 1, DigitChars)
        w == Skip(line, d, SpaceChars)
        counted == d > 1 /\ w > d
        name == TrimSpace(IF counted THEN SubSeq(line, w, Len(line)) ELSE line)
    IN IF name = <<>> THEN <<>>
       ELSE <<CardEntry(name,
                        IF counted THEN DecimalVal(SubSeq(line, 1, d - 1)) ELSE 1,
                        0, FALSE)>>

\* C16: a line yields the entry made of its leading count (1 if absent) and
\* the rest of its trimmed text, and no entry if that text is empty.
C16_EntryForEveryName ==
    (call.fn = "ParseCardEntryLine" /\ ret.done /\ call.s # HugeCountLine)
        => ret.val = ClaimedEntry(call.s)

\* the name is that of a free card, up to case and punctuation
IsFreeName(name) == \E i \in DOMAIN freeCards : nameToId(name) = nameToId(freeCards[i])

\* C17: a free card resolves to its canonical name at price 0, found,
\* whatever the catalog holds; any other name resolves to the name and price
\* of a catalog entry of its ID, found, or, when there is none or the lookup
\* fails, to the name as typed at price 0, not found.
C17_ResolveName ==
    (call.fn = "calculateNameAndPrice" /\ ret.done) =>
        IF IsFreeName(call.s)
        THEN /\ ret.val.Name \in { freeCards[i] : i \in DOMAIN freeCards }
             /\ nameToId(ret.val.Name) = nameToId(call.s)
             /\ ret.val.Price = 0
             /\ ret.val.exists
        ELSE \/ /\ ret.val.exists
                /\ \E e \in prices :
                      /\ e.ID = nameToId(call.s)
                      /\ ret.val.Name = e.Name
                      /\ ret.val.Price = e.Price
             \/ /\ ~ret.val.exists
                /\ ret.val.Name = call.s
                /\ ret.val.Price = 0

\* A free card typed in another spelling was resolved while the catalog
\* lists it at a price.
C17_Witness ==
    /\ call.fn = "calculateNameAndPrice"
    /\ ret.done
    /\ call.s = <<"i", "S", "-", "l", "a", "n", "d">>
    /\ \E e \in prices : e.ID = nameToId(call.s) /\ e.Price > 0
    /\ ret.val.Name = <<"I", "s", "l", "a", "n", "d">>

\* C18: normalizeString and nameToId are idempotent and give the same key
\* for two names that differ only in letter case; nameToId gives the same
\* ID for two names that differ only in punctuation or spacing.
C18_Normalization ==
    (call.fn \in {"normalizeString", "nameToId"} /\ ret.done) =>
        /\ ret.val.again = ret.val.s
        /\ call.rel = "case" => ret.val.t = ret.val.s
        /\ (call.rel = "punct" /\ call.fn = "nameToId") => ret.val.t = ret.val.s

\* Both a name and its upper-case spelling, and a name and its spelling
\* with a space, have been normalized to a non-empty key.
C18_Witness ==
    /\ ret.done
    /\ \/ /\ call.fn = "normalizeString"
          /\ call.rel = "case"
          /\ call.s = <<"A", "b", "$">>
          /\ call.t = <<"A", "B", "$">>
          /\ ret.val.s = <<"a", "b">>
       \/ /\ call.fn = "nameToId"
          /\ call.rel = "punct"
          /\ call.s = <<"A", "b">>
          /\ call.t = <<"A", " ", "b">>
          /\ ret.val.s = <<"a", "b">>

\* the snapshots of the deck being edited, as values
History == [i \in DOMAIN ed.Snapshots |-> Deref(cells, ed.Snapshots[i])]

\* C12: save-snapshot appends one snapshot, a copy of the staging area, and
\* leaves the earlier ones as they were; update-decklist, revert-changes and
\* modify-deck leave the history as it was; only clear-history removes
\* snapshots.
C12_AppendOnly ==
    [][/\ op' = "save" => History' = Append(History, Deref(cells, ed.StagingArea))
       /\ op' \in {"update", "revert", "modify"} => History' = History
       /\ Len(History') < Len(History) => op' = "clear"]_vars

\* A second, different snapshot has been saved.
C12_Witness ==
    /\ op = "save"
    /\ Len(ed.Snapshots) = 2
    /\ History[1] # History[2]

\* no card entry is reached from two snapshots or twice from one
NoSharing == Len(Reached(ed)) = Cardinality(Range(Reached(ed)))

\* C13: no stored snapshot shares a card entry with the staging area or with
\* another snapshot, and neither a staging-area edit, nor a price
\* recalculation, nor a change made to a clone changes the stored snapshots
\* or the total price of the snapshot that was cloned.
C13_NoAliasing ==
    /\ []NoSharing
    /\ [][op' \in {"update", "recalc", "mutate"}
            => /\ History' = History
               /\ op' = "mutate" =>
                    TotalPrice(Deref(cells', ed'.StagingArea))
                        = TotalPrice(Deref(cells, ed.StagingArea))]_vars

\* After a save the prices of the staging area were calculated again and
\* came out different, while the saved snapshot kept its own.
C13_Witness ==
    /\ op = "recalc"
    /\ Len(ed.Snapshots) = 1
    /\ HasIdenticalCards(History[1], Deref(cells, ed.StagingArea))
    /\ TotalPrice(History[1]) # TotalPrice(Deref(cells, ed.StagingArea))
    /\ TotalPrice(History[1]) > 0

\* C20: no two stored users have the same normalized name, whatever AddUser
\* and DeleteUser calls have run and however they interleaved, and an AddUser
\* that returned nil did not add a second user of a normalized name.
C20_UniqueNormalizedNames ==
    \A i \in DOMAIN users : \A j \in DOMAIN users :
        normalizeString(users[i]) = normalizeString(users[j]) => i = j

\* the deck being edited as the values its pointers lead to
Edited ==
    [PriceLimit |-> ed.PriceLimit, StagingArea |-> Deref(cells, ed.StagingArea),
     Snapshots |-> History]

\* the cards of a snapshot: name and count of every entry of both lists, and
\* the commander when one is present
CardsOf(s) ==
    <<[i \in DOMAIN s.Decklist |-> <<s.Decklist[i].Count, s.Decklist[i].Name>>],
      [i \in DOMAIN s.Sideboard |-> <<s.Sideboard[i].Count, s.Sideboard[i].Name>>],
      IF s.Commander.IsPresent THEN <<s.Commander.Name>> ELSE <<>> >>

LastSnapshot == History[Len(History)]

\* C21: IsSaved is true right after save-snapshot and after revert-changes,
\* false for a deck without snapshots (so also right after clear-history), and
\* false after an update-decklist that left the staging area with other cards
\* or another total price than the most recent snapshot.
C21_IsSaved ==
    /\ op \in {"save", "revert"} => IsSaved(Edited)
    /\ History = <<>> => ~IsSaved(Edited)
    /\ (/\ op = "update"
        /\ History # <<>>
        /\ \/ CardsOf(Edited.StagingArea) # CardsOf(LastSnapshot)
           \/ TotalPrice(Edited.StagingArea) # TotalPrice(LastSnapshot))
          => ~IsSaved(Edited)

\* an update changed the total price but not the cards of a saved deck
C21_Witness ==
    /\ op = "update"
    /\ History # <<>>
    /\ CardsOf(Edited.StagingArea) = CardsOf(LastSnapshot)
    /\ TotalPrice(Edited.StagingArea) # TotalPrice(LastSnapshot)
    /\ ~IsSaved(Edited)

\* C22: the staging area and a stored snapshot that both have no commander
\* present and have the same decklist and sideboard have identical cards,
\* whatever edits came before (a commander added and removed again included).
C22_IdenticalWithoutCommander ==
    \A i \in DOMAIN History :
        (/\ ~Edited.StagingArea.Commander.IsPresent
         /\ ~History[i].Commander.IsPresent
         /\ Dump(Edited.StagingArea.Decklist) = Dump(History[i].Decklist)
         /\ Dump(Edited.StagingArea.Sideboard) = Dump(History[i].Sideboard))
            => HasIdenticalCards(Edited.StagingArea, History[i])

\* C23: when a deck is legal and save-snapshot appends a snapshot that has
\* identical cards to the most recent one, the deck is legal afterwards,
\* whatever the prices, the not-found flags and the grandfather flag of the
\* new snapshot.
C23_LegalStaysLegal ==
    [][(/\ op' = "save"
        /\ IsLegal(Edited) = "legal"
        /\ HasIdenticalCards(Edited.StagingArea, LastSnapshot))
          => IsLegal(Edited') = "legal"]_vars

\* the time of the stored stats record, -1 when there is none
LastUpdate ==
    IF scraperStats = {} THEN -1
    ELSE CHOOSE t \in 0..MaxTime :
            /\ \E s \in scraperStats : s.LastPriceUpdate = t
            /\ \A s \in scraperStats : s.LastPriceUpdate <= t

\* the stats record is absent or older than the refresh window
StatsStale == \A s \in scraperStats : StaleUpdate(s.LastPriceUpdate, clock)

\* C24: whenever the stats record is absent or older than the refresh window,
\* a run eventually starts and the record is eventually replaced by one with
\* a newer time.
C24_StaleLeadsToNewer ==
    \A t \in -1..MaxTime : (LastUpdate = t /\ StatsStale) ~> (LastUpdate > t)

\* C25: a request is treated as logged in only when its cookie holds the key
\* last issued for the user, and never with a key that a later login or a
\* logout of that user has replaced.
C25_OnlyLatestKey ==
    \A b \in Browsers :
        findLoggedInUser(b) # ""
            => /\ cookies[b].key = issued.last[cookies[b].user]
               /\ cookies[b].key \notin issued.retired

\* a browser holds the key of a user who has since logged out elsewhere and
\* then logged in again
C25_Witness ==
    \E b \in Browsers : \E c \in Browsers :
        /\ findLoggedInUser(c) # ""
        /\ cookies[b].user = cookies[c].user
        /\ cookies[b].key \in issued.retired
        /\ cookies[b].key # NoKey
        /\ findLoggedInUser(b) = ""

\* C26: no two decks of the user have the same normalized name, and a
\* modify-deck that renames an existing deck to a name of the same normalized
\* form as the name it was asked for by is not refused as "already exists".
C26_UniqueDeckNames ==
    /\ \A i \in DOMAIN userDecks : \A j \in DOMAIN userDecks :
          normalizeString(userDecks[i]) = normalizeString(userDecks[j]) => i = j
    /\ (/\ deckReq.op = "modify"
        /\ deckReq.err \notin {"doesn't exist", "Price incorrectly formatted"}
        /\ normalizeString(deckReq.name) = normalizeString(deckReq.orig))
          => deckReq.err \in {"nil", "store"}

\* a deck was renamed to another spelling of its name while the user has a
\* second deck
C26_Witness ==
    /\ deckReq.op = "modify"
    /\ deckReq.err = "nil"
    /\ deckReq.name # deckReq.orig
    /\ normalizeString(deckReq.name) = normalizeString(deckReq.orig)
    /\ deckReq.name \in Range(userDecks)
    /\ Len(userDecks) = 2

====
